---------------------------- MODULE Spec2Model ----------------------------
(***************************************************************************)
(* A model of the flickr client's request-signing and token-exchange       *)
(* engine (package flickr) and of the groups resource wrapper.             *)
(*                                                                         *)
(* Go strings are TLA+ strings, processed a character at a time with       *)
(* Head/Tail/SubSeq/Len and concatenated with \o.  url.Values is a         *)
(* function from parameter names to the sequence of their values.          *)
(*                                                                         *)
(* The two digests cannot be computed here.  HMAC-SHA1 and MD5 are         *)
(* idealised as collision-free: a digest is written as its algorithm name  *)
(* applied to its exact inputs, so two digests are equal exactly when      *)
(* their inputs are equal.                                                 *)
(***************************************************************************)
EXTENDS Integers, Sequences, FiniteSets, TLC

VARIABLES
    client,     \* the FlickrClient the caller drives
    lastOp,     \* the operation that produced this state (see Op)
    nesting,    \* how many signatures deep each signature in Args is
    request,    \* the verb of the HTTP request that operation issued, "" for none
    response,   \* the response body handed to a parser
    reqToken,   \* the *RequestToken the caller holds, from ParseRequestToken
    reqErr,     \* the error returned with it
    accToken,   \* the *OAuthToken that operation returned, from ParseOAuthToken
    accErr,     \* the error returned with it
    fields,     \* the parameters the response body was written from
    rspDoc,     \* an XML response document
    rsp,        \* the FlickrResponse decoded from it
    b,          \* generateNonce: the rune buffer filled so far
    nonce       \* generateNonce: the string returned

vars == <<client, lastOp, nesting, request, response, reqToken, reqErr,
          accToken, accErr, fields, rspDoc, rsp, b, nonce>>

----------------------------------------------------------------------------
(* Bounds of the model.                                                    *)

\* How deep signatures are explored to cover one another: oauth_signature
\* covers api_sig when it is present, and api_sig covers oauth_signature.
MaxNesting == 1
\* Parameters in a generated response body.
MaxFields == 3
\* <err> elements in a generated response document.
MaxErrElems == 2
\* Interior sample points of rand.Intn's range explored per draw.
RandSamples == 1

----------------------------------------------------------------------------
(* Characters.                                                             *)

\* The printable ASCII characters in code order: 32 (space) to 95 (_), and
\* 97 (a) to 126 (~).  Code 96 cannot be written in a string here and occurs
\* in no string of the model.
AsciiLow == " !\"#$%&'()*+,-./0123456789:;<=>?@ABCDEFGHIJKLMNOPQRSTUVWXYZ[\\]^_"
AsciiHigh == "abcdefghijklmnopqrstuvwxyz{|}~"

CharAt(s, i) == SubSeq(s, i, i)

CharsOf(s) == {CharAt(s, i) : i \in 1..Len(s)}

AsciiChars == CharsOf(AsciiLow) \cup CharsOf(AsciiHigh)

\* The byte value of a printable character.
Ord[c \in AsciiChars] ==
    IF c \in CharsOf(AsciiLow)
    THEN 31 + (CHOOSE i \in 1..Len(AsciiLow) : CharAt(AsciiLow, i) = c)
    ELSE 96 + (CHOOSE i \in 1..Len(AsciiHigh) : CharAt(AsciiHigh, i) = c)

Digits == "0123456789"
UpperHex == "0123456789ABCDEF"
LowerAlpha == "abcdefghijklmnopqrstuvwxyz"
UpperAlpha == "ABCDEFGHIJKLMNOPQRSTUVWXYZ"

Alnum == CharsOf(Digits) \cup CharsOf(LowerAlpha) \cup CharsOf(UpperAlpha)

\* fmt.Sprintf("%d", n) for n >= 0.
RECURSIVE FormatInt(_)
FormatInt(n) ==
    IF n < 10 THEN CharAt(Digits, n + 1)
    ELSE FormatInt(n \div 10) \o CharAt(Digits, (n % 10) + 1)

\* a < b in Go's string order: bytewise, a proper prefix first.
RECURSIVE StrLess(_, _)
StrLess(x, y) ==
    IF y = "" THEN FALSE
    ELSE IF x = "" THEN TRUE
    ELSE IF Head(x) = Head(y) THEN StrLess(Tail(x), Tail(y))
    ELSE Ord[Head(x)] < Ord[Head(y)]

\* Insertion of k into an ascending sequence.
RECURSIVE InsertSorted(_, _)
InsertSorted(k, s) ==
    IF s = <<>> THEN <<k>>
    ELSE IF StrLess(Head(s), k) THEN <<Head(s)>> \o InsertSorted(k, Tail(s))
    ELSE <<k>> \o s

\* sort.Strings.
RECURSIVE SortStrings(_)
SortStrings(s) ==
    IF s = <<>> THEN <<>> ELSE InsertSorted(Head(s), SortStrings(Tail(s)))

----------------------------------------------------------------------------
(* net/url.                                                                *)

\* url.QueryEscape of one character: unreserved characters stay, a space
\* becomes +, every other byte becomes %XX in upper-case hex.
EscapeChar[c \in AsciiChars] ==
    IF c \in Alnum \cup {"-", "_", ".", "~"} THEN c
    ELSE IF c = " " THEN "+"
    ELSE "%" \o CharAt(UpperHex, (Ord[c] \div 16) + 1)
             \o CharAt(UpperHex, (Ord[c] % 16) + 1)

\* The concatenation of the strings p[lo], ..., p[hi].
RECURSIVE Join(_, _, _)
Join(p, lo, hi) ==
    IF lo > hi THEN ""
    ELSE IF hi = lo THEN p[lo]
    ELSE IF hi = lo + 1 THEN p[lo] \o p[hi]
    ELSE IF hi = lo + 2 THEN p[lo] \o p[lo + 1] \o p[hi]
    ELSE IF hi = lo + 3 THEN p[lo] \o p[lo + 1] \o p[lo + 2] \o p[hi]
    ELSE LET mid == (lo + hi) \div 2
         IN  Join(p, lo, mid) \o Join(p, mid + 1, hi)

QueryEscape(s) ==
    Join([i \in 1..Len(s) |-> EscapeChar[CharAt(s, i)]], 1, Len(s))

\* url.Values{}
EmptyValues == [k \in {} |-> <<>>]

ValuesHas(v, key) == key \in DOMAIN v

\* Values.Get: the first value of key, "" when there is none.
ValuesGet(v, key) ==
    IF key \in DOMAIN v /\ Len(v[key]) > 0 THEN v[key][1] ELSE ""

\* Values.Set: key gets the single value val.
ValuesSet(v, key, val) ==
    [k \in DOMAIN v \cup {key} |-> IF k = key THEN <<val>> ELSE v[k]]

\* Values.Add: val is appended to the values of key.
ValuesAdd(v, key, val) ==
    [k \in DOMAIN v \cup {key} |->
        IF k = key
        THEN (IF key \in DOMAIN v THEN v[key] ELSE <<>>) \o <<val>>
        ELSE v[k]]

\* Values.Del
ValuesDel(v, key) == [k \in DOMAIN v \ {key} |-> v[k]]

\* Some enumeration of a finite set.
RECURSIVE SetToSeq(_)
SetToSeq(S) ==
    IF S = {} THEN <<>>
    ELSE LET e == CHOOSE e \in S : TRUE IN <<e>> \o SetToSeq(S \ {e})

\* The key=value pairs of one key, joined with &.
RECURSIVE EncodeKey(_, _)
EncodeKey(ek, vals) ==
    IF vals = <<>> THEN ""
    ELSE ek \o "=" \o QueryEscape(Head(vals))
            \o (IF Tail(vals) = <<>> THEN "" ELSE "&" \o EncodeKey(ek, Tail(vals)))

RECURSIVE EncodeKeys(_, _)
EncodeKeys(v, keys) ==
    IF keys = <<>> THEN ""
    ELSE LET one  == EncodeKey(QueryEscape(Head(keys)), v[Head(keys)])
             rest == EncodeKeys(v, Tail(keys))
         IN  IF one = "" THEN rest
             ELSE IF rest = "" THEN one
             ELSE one \o "&" \o rest

\* Values.Encode: "URL encoded" form, sorted by key.
ValuesEncode(v) == EncodeKeys(v, SortStrings(SetToSeq(DOMAIN v)))

\* The position of the first occurrence of character ch in s, 0 when absent.
IndexChar(s, ch) ==
    LET hits == {i \in 1..Len(s) : CharAt(s, i) = ch}
    IN  IF hits = {} THEN 0 ELSE CHOOSE i \in hits : \A j \in hits : i <= j

\* strings.Cut(s, sep) for a one-character separator.
Cut(s, sep) ==
    LET i == IndexChar(s, sep)
    IN  IF i = 0 THEN [before |-> s, after |-> "", found |-> FALSE]
        ELSE [before |-> SubSeq(s, 1, i - 1),
              after  |-> SubSeq(s, i + 1, Len(s)),
              found  |-> TRUE]

Whitespace == {" ", "\t", "\n", "\r"}

\* strings.TrimSpace: s from its first to its last character that is not
\* white space.
TrimSpace(s) ==
    LET keep == {i \in 1..Len(s) : CharAt(s, i) \notin Whitespace}
    IN  IF keep = {} THEN ""
        ELSE SubSeq(s, CHOOSE i \in keep : \A j \in keep : i <= j,
                       CHOOSE i \in keep : \A j \in keep : i >= j)

HexChars == CharsOf("0123456789abcdefABCDEF")

\* The value of a hex digit (unhex).
HexVal(c) ==
    IF c \in CharsOf(Digits) THEN Ord[c] - Ord["0"]
    ELSE IF c \in CharsOf("abcdef") THEN Ord[c] - Ord["a"] + 10
    ELSE Ord[c] - Ord["A"] + 10

\* The character of a decoded byte.  Bytes outside the printable table are
\* written as the escape that produced them would be: none occurs in the
\* bodies explored.
ByteChar(n) ==
    IF n >= 32 /\ n <= 95 THEN CharAt(AsciiLow, n - 31)
    ELSE IF n >= 97 /\ n <= 126 THEN CharAt(AsciiHigh, n - 96)
    ELSE "\\x" \o CharAt(UpperHex, (n \div 16) + 1) \o CharAt(UpperHex, (n % 16) + 1)

\* Whether every % of s is followed by two hex digits.
ValidEscapes(s) ==
    \A i \in 1..Len(s) :
        CharAt(s, i) = "%" =>
            /\ i + 2 <= Len(s)
            /\ CharAt(s, i + 1) \in HexChars
            /\ CharAt(s, i + 2) \in HexChars

\* What position i of s, whose escapes are valid, contributes to the
\* unescaped string: a % its byte, the two hex digits after a % nothing, a +
\* a space, any other character itself.
UnescapedAt(s, i) ==
    IF CharAt(s, i) = "%"
    THEN ByteChar(16 * HexVal(CharAt(s, i + 1)) + HexVal(CharAt(s, i + 2)))
    ELSE IF (i > 1 /\ CharAt(s, i - 1) = "%") \/ (i > 2 /\ CharAt(s, i - 2) = "%")
    THEN ""
    ELSE IF CharAt(s, i) = "+" THEN " "
    ELSE CharAt(s, i)

Unescaped(s) == Join([i \in 1..Len(s) |-> UnescapedAt(s, i)], 1, Len(s))

\* url.QueryUnescape: %XX becomes the byte, + becomes a space; a % not
\* followed by two hex digits is an error.
QueryUnescape(s) ==
    IF ValidEscapes(s) THEN [val |-> Unescaped(s), err |-> "nil"]
    ELSE [val |-> "", err |-> "url: invalid URL escape"]

FirstErr(err, e) == IF err = "nil" THEN e ELSE err

\* url.ParseQuery's loop over the &-separated settings of query (which holds
\* no semicolon): an empty setting is skipped, a setting that fails to
\* unescape is dropped and the first such error is the one returned.
RECURSIVE parseQuery(_, _, _)
parseQuery(m, query, err) ==
    IF query = "" THEN [values |-> m, err |-> err]
    ELSE LET seg == Cut(query, "&")
         IN  IF seg.before = "" THEN parseQuery(m, seg.after, err)
             ELSE LET kv  == Cut(seg.before, "=")
                      key == QueryUnescape(kv.before)
                      val == QueryUnescape(kv.after)
                  IN  IF key.err # "nil"
                      THEN parseQuery(m, seg.after, FirstErr(err, key.err))
                      ELSE IF val.err # "nil"
                      THEN parseQuery(m, seg.after, FirstErr(err, val.err))
                      ELSE parseQuery(ValuesAdd(m, key.val, val.val), seg.after, err)

ParseQuery(query) == parseQuery(EmptyValues, query, "nil")

\* strconv.ParseBool
ParseBool(str) ==
    IF str \in {"1", "t", "T", "TRUE", "true", "True"}
    THEN [val |-> TRUE, err |-> "nil"]
    ELSE IF str \in {"0", "f", "F", "FALSE", "false", "False"}
    THEN [val |-> FALSE, err |-> "nil"]
    ELSE [val |-> FALSE, err |-> "strconv.ParseBool: invalid syntax"]

----------------------------------------------------------------------------
(* Digests, idealised as collision-free.                                   *)

\* base64.StdEncoding.EncodeToString of the HMAC-SHA1 of msg under key.
HmacSha1Base64(key, msg) == "base64(hmac-sha1(" \o key \o "," \o msg \o "))"

\* fmt.Sprintf("%x", md5.Sum(data))
Md5Hex(data) == "hex(md5(" \o data \o "))"

----------------------------------------------------------------------------
(* package flickr: constants and the nonce.                                *)

API_ENDPOINT      == "https://api.flickr.com/services/rest"
AUTHORIZE_URL     == "https://www.flickr.com/services/oauth/authorize"
REQUEST_TOKEN_URL == "https://www.flickr.com/services/oauth/request_token"
ACCESS_TOKEN_URL  == "https://www.flickr.com/services/oauth/access_token"

\* b := make([]rune, 8)
NonceLen == 8

\* The alphabet with the letter l left in.
lettersWithL == "123456789abcdefghijklmnopqrstuvwxyzABCDEFGHJKLMNPQRSTUVWXYZ"

\* var letters = []rune("...")
letters == "123456789abcdefghijkmnopqrstuvwxyzABCDEFGHJKLMNPQRSTUVWXYZ"

\* The results of rand.Intn(n) explored: both ends of [0, n) and RandSamples
\* evenly spread points between them.
Intn(n) ==
    {0, n - 1} \cup {(j * n) \div (RandSamples + 1) : j \in 1..RandSamples}

\* b[i] = letters[rand.Intn(len(letters))], for the draw r.
NonceRune(r) == CharAt(letters, r + 1)

RECURSIVE RunesToString(_)
RunesToString(runes) ==
    IF runes = <<>> THEN "" ELSE Head(runes) \o RunesToString(Tail(runes))

\* generateNonce, given the NonceLen results of rand.Intn it draws.
generateNonce(draws) ==
    RunesToString([i \in 1..NonceLen |-> NonceRune(draws[i])])

----------------------------------------------------------------------------
(* FlickrClient.                                                           *)

NewFlickrClient(apiKey, apiSecret) ==
    [ApiKey           |-> apiKey,
     ApiSecret        |-> apiSecret,
     EndpointUrl      |-> "",
     HTTPVerb         |-> "GET",
     Args             |-> EmptyValues,
     OAuthToken       |-> "",
     OAuthTokenSecret |-> ""]

GetUrl(c) == c.EndpointUrl \o "?" \o ValuesEncode(c.Args)

ClearArgs(c) == [c EXCEPT !.Args = EmptyValues]

\* SetDefaultArgs without the reset of line 99: the defaults are added to
\* what the set holds.
SetDefaultArgsNoReset(c, n, now) ==
    [c EXCEPT !.Args =
        ValuesAdd(ValuesAdd(ValuesAdd(ValuesAdd(c.Args,
            "oauth_version", "1.0"),
            "oauth_signature_method", "HMAC-SHA1"),
            "oauth_nonce", n),
            "oauth_timestamp", FormatInt(now))]

\* SetDefaultArgs, with n the nonce generateNonce returns and now the value of
\* time.Now().Unix().
SetDefaultArgs(c, n, now) ==
    [c EXCEPT !.Args =
        ValuesAdd(ValuesAdd(ValuesAdd(ValuesAdd(EmptyValues,
            "oauth_version", "1.0"),
            "oauth_signature_method", "HMAC-SHA1"),
            "oauth_nonce", n),
            "oauth_timestamp", FormatInt(now))]

getSigningBaseString(c) ==
    c.HTTPVerb \o "&" \o QueryEscape(c.EndpointUrl)
               \o "&" \o QueryEscape(ValuesEncode(c.Args))

getSignature(c, token_secret) ==
    LET key == QueryEscape(c.ApiSecret) \o "&" \o QueryEscape(token_secret)
        base_string == getSigningBaseString(c)
    IN  HmacSha1Base64(key, base_string)

\* Sign without the Del of line 76: the signature covers the one before.
SignNoDel(c, tokenSecret) ==
    [c EXCEPT !.Args = ValuesSet(c.Args, "oauth_signature", getSignature(c, tokenSecret))]

\* Sign with Add in place of Del and Set: the signatures pile up.
SignAdd(c, tokenSecret) ==
    [c EXCEPT !.Args = ValuesAdd(c.Args, "oauth_signature", getSignature(c, tokenSecret))]

Sign(c, tokenSecret) ==
    LET d == [c EXCEPT !.Args = ValuesDel(c.Args, "oauth_signature")]
    IN  [d EXCEPT !.Args = ValuesSet(d.Args, "oauth_signature", getSignature(d, tokenSecret))]

\* The orders in which `for k := range c.Args` may visit the keys: Go leaves
\* the order of a map's iteration unspecified.  Explored: one enumeration of
\* the keys and its reverse.
Reverse(q) == [i \in 1..Len(q) |-> q[Len(q) + 1 - i]]

MapOrders(m) == LET q == SetToSeq(DOMAIN m) IN {q, Reverse(q)}

\* The keys as the map gave them, without the sort of line 136.
apiKeysUnsorted(keys) == keys

\* sort.Strings(keys) in getApiSignature
apiSortedKeys(keys) == SortStrings(keys)

RECURSIVE apiWriteArgs(_, _)
apiWriteArgs(args, keys) ==
    IF keys = <<>> THEN ""
    ELSE Head(keys) \o args[Head(keys)][1] \o apiWriteArgs(args, Tail(keys))

\* getApiSignature, with order the order in which the range over c.Args
\* visits its keys.
getApiSignature(c, token_secret, order) ==
    LET keys == apiSortedKeys(order)
        base == token_secret \o apiWriteArgs(c.Args, keys)
    IN  Md5Hex(base)

\* ApiSign, with order the order in which getApiSignature's range visits the
\* keys left after the Del.
ApiSign(c, tokenSecret, order) ==
    LET d == [c EXCEPT !.Args = ValuesDel(c.Args, "api_sig")]
    IN  [d EXCEPT !.Args =
            ValuesSet(d.Args, "api_sig",
                      getApiSignature(d, tokenSecret, order))]

----------------------------------------------------------------------------
(* FlickrResponse.                                                         *)

\* The zero value of FlickrResponse.
ZeroResponse == [Status |-> "", Error |-> [Code |-> 0, Message |-> ""]]

\* xml.Unmarshal of a document <rsp stat=...> holding the <err code= msg=>
\* elements errs into a FlickrResponse: the stat attribute goes to Status and
\* each err element in turn overwrites Error.
RECURSIVE UnmarshalErrs(_, _)
UnmarshalErrs(r, errs) ==
    IF errs = <<>> THEN r
    ELSE UnmarshalErrs(
            [r EXCEPT !.Error = [Code |-> Head(errs).code, Message |-> Head(errs).msg]],
            Tail(errs))

Unmarshal(doc) ==
    UnmarshalErrs([ZeroResponse EXCEPT !.Status = doc.stat], doc.errs)

HasErrors(r) == r.Status = "fail"

ErrorCode(r) == r.Error.Code

ErrorMsg(r) == r.Error.Message

----------------------------------------------------------------------------
(* Tokens.                                                                 *)

\* A nil *RequestToken, and &RequestToken{}.
NilRequestToken ==
    [nil |-> TRUE, OauthCallbackConfirmed |-> FALSE, OauthToken |-> "",
     OauthTokenSecret |-> "", OAuthProblem |-> ""]

ZeroRequestToken == [NilRequestToken EXCEPT !.nil = FALSE]

\* flickErr.NewError(code)
NewError(code) == "flickr error " \o FormatInt(code)

\* ParseRequestToken taking the secret from oauth_token.
ParseRequestTokenSecretFromToken(resp) ==
    LET q   == ParseQuery(TrimSpace(resp))
        val == q.values
        oauth_problem == ValuesGet(val, "oauth_problem")
        confirmed == ParseBool(ValuesGet(val, "oauth_callback_confirmed")).val
    IN  IF q.err # "nil" THEN [tok |-> NilRequestToken, err |-> q.err]
        ELSE IF oauth_problem # ""
        THEN [tok |-> [ZeroRequestToken EXCEPT !.OAuthProblem = oauth_problem],
              err |-> NewError(20)]
        ELSE [tok |-> [ZeroRequestToken EXCEPT
                          !.OauthCallbackConfirmed = confirmed,
                          !.OauthToken = ValuesGet(val, "oauth_token"),
                          !.OauthTokenSecret = ValuesGet(val, "oauth_token")],
              err |-> "nil"]

ParseRequestToken(resp) ==
    LET q   == ParseQuery(TrimSpace(resp))
        val == q.values
        oauth_problem == ValuesGet(val, "oauth_problem")
        confirmed == ParseBool(ValuesGet(val, "oauth_callback_confirmed")).val
    IN  IF q.err # "nil" THEN [tok |-> NilRequestToken, err |-> q.err]
        ELSE IF oauth_problem # ""
        THEN [tok |-> [ZeroRequestToken EXCEPT !.OAuthProblem = oauth_problem],
              err |-> NewError(20)]
        ELSE [tok |-> [ZeroRequestToken EXCEPT
                          !.OauthCallbackConfirmed = confirmed,
                          !.OauthToken = ValuesGet(val, "oauth_token"),
                          !.OauthTokenSecret = ValuesGet(val, "oauth_token_secret")],
              err |-> "nil"]

\* A nil *OAuthToken, and &OAuthToken{}.
NilOAuthToken ==
    [nil |-> TRUE, OAuthToken |-> "", OAuthTokenSecret |-> "", UserNsid |-> "",
     Username |-> "", Fullname |-> "", OAuthProblem |-> ""]

ZeroOAuthToken == [NilOAuthToken EXCEPT !.nil = FALSE]

\* ParseOAuthToken rejecting with the code of the request-token step.
ParseOAuthTokenCode20(resp) ==
    LET q   == ParseQuery(TrimSpace(resp))
        val == q.values
        oauth_problem == ValuesGet(val, "oauth_problem")
    IN  IF q.err # "nil" THEN [tok |-> NilOAuthToken, err |-> q.err]
        ELSE IF oauth_problem # ""
        THEN [tok |-> [ZeroOAuthToken EXCEPT !.OAuthProblem = oauth_problem],
              err |-> NewError(20)]
        ELSE [tok |-> [ZeroOAuthToken EXCEPT
                          !.OAuthToken = ValuesGet(val, "oauth_token"),
                          !.OAuthTokenSecret = ValuesGet(val, "oauth_token_secret"),
                          !.Fullname = ValuesGet(val, "fullname"),
                          !.UserNsid = ValuesGet(val, "user_nsid"),
                          !.Username = ValuesGet(val, "username")],
              err |-> "nil"]

ParseOAuthToken(resp) ==
    LET q   == ParseQuery(TrimSpace(resp))
        val == q.values
        oauth_problem == ValuesGet(val, "oauth_problem")
    IN  IF q.err # "nil" THEN [tok |-> NilOAuthToken, err |-> q.err]
        ELSE IF oauth_problem # ""
        THEN [tok |-> [ZeroOAuthToken EXCEPT !.OAuthProblem = oauth_problem],
              err |-> NewError(30)]
        ELSE [tok |-> [ZeroOAuthToken EXCEPT
                          !.OAuthToken = ValuesGet(val, "oauth_token"),
                          !.OAuthTokenSecret = ValuesGet(val, "oauth_token_secret"),
                          !.Fullname = ValuesGet(val, "fullname"),
                          !.UserNsid = ValuesGet(val, "user_nsid"),
                          !.Username = ValuesGet(val, "username")],
              err |-> "nil"]

----------------------------------------------------------------------------
(* The token exchange.                                                     *)

\* GetRequestToken up to client.Sign(""): the client as it is when the HTTP
\* request is issued.
requestTokenRequest(c, n, now) ==
    LET c1 == [c EXCEPT !.EndpointUrl = REQUEST_TOKEN_URL]
        c2 == SetDefaultArgs(c1, n, now)
        c3 == [c2 EXCEPT !.Args = ValuesSet(c2.Args, "oauth_consumer_key", c2.ApiKey)]
        c4 == [c3 EXCEPT !.Args = ValuesSet(c3.Args, "oauth_callback", "oob")]
    IN  Sign(c4, "")

\* GetAuthorizeUrl: the client it leaves.
authorizeRequest(c, reqTok) ==
    LET c1 == [c EXCEPT !.EndpointUrl = AUTHORIZE_URL]
        c2 == [c1 EXCEPT !.Args = EmptyValues]
        c3 == [c2 EXCEPT !.Args = ValuesSet(c2.Args, "oauth_token", reqTok.OauthToken)]
    IN  [c3 EXCEPT !.Args = ValuesSet(c3.Args, "perms", "delete")]

\* GetAccessToken signing with the client's own OAuthTokenSecret.
accessTokenRequestOwnSecret(c, reqTok, oauthVerifier, n, now) ==
    LET c1 == [c EXCEPT !.EndpointUrl = ACCESS_TOKEN_URL]
        c2 == SetDefaultArgs(c1, n, now)
        c3 == [c2 EXCEPT !.Args = ValuesSet(c2.Args, "oauth_verifier", oauthVerifier)]
        c4 == [c3 EXCEPT !.Args = ValuesSet(c3.Args, "oauth_consumer_key", c3.ApiKey)]
        c5 == [c4 EXCEPT !.Args = ValuesSet(c4.Args, "oauth_token", reqTok.OauthToken)]
    IN  Sign(c5, c5.OAuthTokenSecret)

\* GetAccessToken up to client.Sign(reqToken.OauthTokenSecret).
accessTokenRequest(c, reqTok, oauthVerifier, n, now) ==
    LET c1 == [c EXCEPT !.EndpointUrl = ACCESS_TOKEN_URL]
        c2 == SetDefaultArgs(c1, n, now)
        c3 == [c2 EXCEPT !.Args = ValuesSet(c2.Args, "oauth_verifier", oauthVerifier)]
        c4 == [c3 EXCEPT !.Args = ValuesSet(c3.Args, "oauth_consumer_key", c3.ApiKey)]
        c5 == [c4 EXCEPT !.Args = ValuesSet(c4.Args, "oauth_token", reqTok.OauthToken)]
    IN  Sign(c5, reqTok.OauthTokenSecret)

----------------------------------------------------------------------------
(* package groups.                                                         *)

\* client.Init(): the reset and seeding that precedes a signed call.
clientInit(c, n, now) == SetDefaultArgs(c, n, now)

\* client.OAuthSign(): the signature of an authenticated resource call, made
\* with the signed-in user's token secret.
clientOAuthSign(c, order) == ApiSign(c, c.OAuthTokenSecret, order)

\* groups.GetInfo up to client.OAuthSign(), without the signature.
getInfoRequest(c, groupId, n, now) ==
    LET c1 == clientInit(c, n, now)
        c2 == [c1 EXCEPT !.EndpointUrl = API_ENDPOINT]
        c3 == [c2 EXCEPT !.HTTPVerb = "POST"]
        c4 == [c3 EXCEPT !.Args = ValuesSet(c3.Args, "method", "flickr.groups.getInfo")]
    IN  [c4 EXCEPT !.Args = ValuesSet(c4.Args, "group_id", groupId)]

----------------------------------------------------------------------------
(* The inputs explored.                                                    *)

ApiKeySample == "9a05"
ApiSecretSample == "0fab"

\* What generateNonce and time.Now().Unix() give one call of SetDefaultArgs:
\* a nonce whose draws are all the lowest result of rand.Intn, and one whose
\* draws are all the highest, a second later.
Seeds ==
    {[n   |-> generateNonce([i \in 1..NonceLen |-> 0]),
      now |-> 1445412480],
     [n   |-> generateNonce([i \in 1..NonceLen |-> Len(letters) - 1]),
      now |-> 1445412481]}

\* Token secrets a caller passes to Sign and ApiSign.
SecretSamples == {"", "S1"}

TransportFailure == "transport failure"

\* What the HTTP GET of the request-token endpoint gives: a body, or a
\* transport error.
RequestTokenOutcomes ==
    {"oauth_callback_confirmed=true&oauth_token=T1&oauth_token_secret=S1",
     "oauth_callback_confirmed=true&oauth_token=T1",
     "oauth_problem=permission_denied",
     TransportFailure}

\* What the HTTP GET of the access-token endpoint gives.
AccessTokenOutcomes ==
    {"fullname=Jo%20Do&oauth_token=A1&oauth_token_secret=AS1&user_nsid=1%40N01&username=jo",
     "oauth_problem=verifier_invalid\n",
     TransportFailure}

\* What the parsers make of the bodies.
RequestTokenParsed ==
    [got \in RequestTokenOutcomes \ {TransportFailure} |-> ParseRequestToken(got)]

AccessTokenParsed ==
    [got \in AccessTokenOutcomes \ {TransportFailure} |-> ParseOAuthToken(got)]

NoRequest == ""

\* The URL of the request an operation issued (client.GetUrl() as the
\* operation leaves the client), and the URL GetAuthorizeUrl returns.
RequestUrl == GetUrl(client)

DefaultNames ==
    {"oauth_version", "oauth_signature_method", "oauth_nonce", "oauth_timestamp"}

\* The record of an operation: its name, the token secret it was passed,
\* whether the operation before it was the same one with the same token
\* secret (kept for Sign and ApiSign), and whether the parameter set it
\* reset held parameters other than the seeded defaults (kept for
\* SetDefaultArgs and the operations that call it).
Op(name) == [op |-> name, secret |-> "", again |-> FALSE, had |-> FALSE]

SignOp(name, tokenSecret) ==
    [Op(name) EXCEPT !.secret = tokenSecret,
                     !.again = (lastOp.op = name /\ lastOp.secret = tokenSecret)]

ResetOp(name) ==
    [Op(name) EXCEPT !.had = (DOMAIN client.Args \ DefaultNames # {})]

NoNesting == [oauth_signature |-> 0, api_sig |-> 0]

\* What the parts of the model that a behaviour does not touch start as.
ParseIdle ==
    /\ fields = <<>>
    /\ response = ""
    /\ reqToken = NilRequestToken
    /\ reqErr = "nil"
    /\ accToken = NilOAuthToken
    /\ accErr = "nil"

EnvelopeIdle ==
    /\ rspDoc = [stat |-> "", errs |-> <<>>]
    /\ rsp = ZeroResponse

NonceIdle ==
    /\ b = <<>>
    /\ nonce = ""

ClientIdle ==
    /\ client = NewFlickrClient(ApiKeySample, ApiSecretSample)
    /\ lastOp = Op("NewFlickrClient")
    /\ nesting = NoNesting
    /\ request = NoRequest

----------------------------------------------------------------------------
(* The client driven by its caller.                                        *)

Init == ClientIdle /\ ParseIdle /\ EnvelopeIdle /\ NonceIdle

pureVars == <<fields, rspDoc, rsp, b, nonce>>
heldVars == <<reqToken, reqErr>>

\* An operation that issues no request and returns no token.
Quiet ==
    /\ request' = NoRequest
    /\ response' = ""
    /\ accToken' = NilOAuthToken
    /\ accErr' = "nil"
    /\ UNCHANGED <<heldVars, pureVars>>

DoClearArgs ==
    /\ client' = ClearArgs(client)
    /\ lastOp' = Op("ClearArgs")
    /\ nesting' = NoNesting
    /\ Quiet

DoSetDefaultArgs ==
    \E seed \in Seeds :
        /\ client' = SetDefaultArgs(client, seed.n, seed.now)
        /\ lastOp' = ResetOp("SetDefaultArgs")
        /\ nesting' = NoNesting
        /\ Quiet

\* Sign.  The new oauth_signature covers api_sig, one level deeper than it.
DoSign ==
    \E tokenSecret \in SecretSamples :
        /\ nesting.api_sig < MaxNesting
        /\ client' = Sign(client, tokenSecret)
        /\ lastOp' = SignOp("Sign", tokenSecret)
        /\ nesting' = [nesting EXCEPT !.oauth_signature = nesting.api_sig + 1]
        /\ Quiet

\* ApiSign.  The new api_sig covers oauth_signature, one level deeper than it.
DoApiSign ==
    \E tokenSecret \in SecretSamples :
        \E order \in MapOrders(ValuesDel(client.Args, "api_sig")) :
            /\ nesting.oauth_signature < MaxNesting
            /\ client' = ApiSign(client, tokenSecret, order)
            /\ lastOp' = SignOp("ApiSign", tokenSecret)
            /\ nesting' = [nesting EXCEPT !.api_sig = nesting.oauth_signature + 1]
            /\ Quiet

\* GetRequestToken: the HTTP GET fails or answers with a body.
DoGetRequestToken ==
    \E seed \in Seeds :
        LET c == requestTokenRequest(client, seed.n, seed.now)
        IN  \E got \in RequestTokenOutcomes :
                LET res == IF got = TransportFailure
                           THEN [tok |-> NilRequestToken, err |-> TransportFailure]
                           ELSE RequestTokenParsed[got]
                IN  /\ client' = c
                    /\ request' = "GET"
                    /\ response' = IF got = TransportFailure THEN "" ELSE got
                    /\ reqToken' = res.tok
                    /\ reqErr' = res.err
                    /\ accToken' = NilOAuthToken
                    /\ accErr' = "nil"
                    /\ lastOp' = ResetOp("GetRequestToken")
                    /\ nesting' = [NoNesting EXCEPT !.oauth_signature = 1]
                    /\ UNCHANGED pureVars

\* GetAuthorizeUrl, with the request token step 1 returned without an error.
\* No request is issued: the URL is returned.
DoGetAuthorizeUrl ==
    /\ ~reqToken.nil
    /\ reqErr = "nil"
    /\ client' = authorizeRequest(client, reqToken)
    /\ request' = NoRequest
    /\ response' = ""
    /\ accToken' = NilOAuthToken
    /\ accErr' = "nil"
    /\ lastOp' = Op("GetAuthorizeUrl")
    /\ nesting' = NoNesting
    /\ UNCHANGED <<heldVars, pureVars>>

\* GetAccessToken, with the request token step 1 returned without an error.
DoGetAccessToken ==
    /\ ~reqToken.nil
    /\ reqErr = "nil"
    /\ \E seed \in Seeds :
        LET c == accessTokenRequest(client, reqToken, "v3r", seed.n, seed.now)
        IN  \E got \in AccessTokenOutcomes :
                LET res == IF got = TransportFailure
                           THEN [tok |-> NilOAuthToken, err |-> TransportFailure]
                           ELSE AccessTokenParsed[got]
                IN  /\ client' = c
                    /\ request' = "GET"
                    /\ response' = IF got = TransportFailure THEN "" ELSE got
                    /\ accToken' = res.tok
                    /\ accErr' = res.err
                    /\ lastOp' = ResetOp("GetAccessToken")
                    /\ nesting' = [NoNesting EXCEPT !.oauth_signature = 1]
                    /\ UNCHANGED <<heldVars, pureVars>>

\* The caller keeps the access token it was just returned in the client's
\* OAuthToken and OAuthTokenSecret fields, for the resource calls to sign
\* with.
StoreAccessToken ==
    /\ ~accToken.nil
    /\ accErr = "nil"
    /\ client' = [client EXCEPT !.OAuthToken = accToken.OAuthToken,
                                !.OAuthTokenSecret = accToken.OAuthTokenSecret]
    /\ lastOp' = Op("StoreAccessToken")
    /\ UNCHANGED nesting
    /\ Quiet

\* groups.GetInfo: the request signed and posted.
DoGetInfo ==
    \E seed \in Seeds :
        LET c == getInfoRequest(client, "51@N01", seed.n, seed.now)
        IN  \E order \in MapOrders(c.Args) :
                /\ client' = clientOAuthSign(c, order)
                /\ request' = "POST"
                /\ response' = ""
                /\ accToken' = NilOAuthToken
                /\ accErr' = "nil"
                /\ lastOp' = ResetOp("GetInfo")
                /\ nesting' = [NoNesting EXCEPT !.api_sig = 1]
                /\ UNCHANGED <<heldVars, pureVars>>

Next ==
    \/ DoClearArgs
    \/ DoSetDefaultArgs
    \/ DoSign
    \/ DoApiSign
    \/ DoGetRequestToken
    \/ DoGetAuthorizeUrl
    \/ DoGetAccessToken
    \/ StoreAccessToken
    \/ DoGetInfo

Spec == Init /\ [][Next]_vars

----------------------------------------------------------------------------
(* Properties of the client.                                               *)

Args == client.Args

\* The client as the signature under key sig saw it: without that parameter.
Without(c, sig) == [c EXCEPT !.Args = ValuesDel(c.Args, sig)]

Handshake == {"GetRequestToken", "GetAccessToken"}

\* C1: after GetRequestToken or GetAccessToken, whatever the client was left
\* as by earlier calls, the request issued is a GET and the oauth_signature
\* sent with it is the signature of a base string that starts with the verb
\* GET: the verb signed is the verb of the request.
C1_HandshakeSignsVerbGET ==
    lastOp.op \in Handshake =>
        /\ request = "GET"
        /\ SubSeq(getSigningBaseString(Without(client, "oauth_signature")), 1, 4) = "GET&"
        /\ Args["oauth_signature"] =
              <<getSignature([Without(client, "oauth_signature") EXCEPT !.HTTPVerb = request],
                             IF lastOp.op = "GetRequestToken" THEN ""
                             ELSE reqToken.OauthTokenSecret)>>

\* C2: a Sign(s) that follows a Sign(s) leaves the parameter set as it was,
\* with the same oauth_signature, and an ApiSign(s) that follows an
\* ApiSign(s) leaves it as it was, with the same api_sig.
C2_ResigningIsIdempotent ==
    [][(/\ lastOp.op \in {"Sign", "ApiSign"}
        /\ lastOp'.op = lastOp.op
        /\ lastOp'.secret = lastOp.secret) => client'.Args = client.Args]_vars

C2_Witness ==
    /\ lastOp.op = "Sign"
    /\ lastOp.again
    /\ lastOp.secret # ""
    /\ "oauth_signature" \in DOMAIN Args

\* C4 as stated: GetRequestToken signs with an empty token secret, and
\* GetAccessToken signs with the secret of the request token of step 1, which
\* is not empty and is neither the client's own OAuthTokenSecret nor the
\* secret of the access token the step returns.
C4_AccessSecretNonEmptyAndDistinct ==
    /\ lastOp.op = "GetRequestToken" =>
          Args["oauth_signature"] =
              <<getSignature(Without(client, "oauth_signature"), "")>>
    /\ lastOp.op = "GetAccessToken" =>
          /\ Args["oauth_signature"] =
                <<getSignature(Without(client, "oauth_signature"),
                               reqToken.OauthTokenSecret)>>
          /\ reqToken.OauthTokenSecret # ""
          /\ reqToken.OauthTokenSecret # client.OAuthTokenSecret
          /\ ~accToken.nil => reqToken.OauthTokenSecret # accToken.OAuthTokenSecret

\* C4 as amended: the oauth_signature GetRequestToken sends is made with an
\* empty token secret, and the one GetAccessToken sends is made with the
\* OauthTokenSecret of the request token passed to it, whatever the client's
\* own OAuthTokenSecret and the access token returned; that secret is empty
\* when the body the request token was parsed from held no
\* oauth_token_secret.
C4_HandshakeSigningKeys ==
    /\ lastOp.op = "GetRequestToken" =>
          Args["oauth_signature"] =
              <<getSignature(Without(client, "oauth_signature"), "")>>
    /\ lastOp.op = "GetAccessToken" =>
          Args["oauth_signature"] =
              <<getSignature(Without(client, "oauth_signature"),
                             reqToken.OauthTokenSecret)>>

C4_Witness ==
    /\ lastOp.op = "GetAccessToken"
    /\ reqToken.OauthTokenSecret # ""
    /\ client.OAuthTokenSecret \notin {"", reqToken.OauthTokenSecret}
    /\ ~accToken.nil

\* C5: each parameter name in the parameter set has exactly one value, and a
\* Sign that writes oauth_signature leaves it with the one value just
\* computed, whether or not the name was present before.
C5_OneValuePerName ==
    /\ \A k \in DOMAIN Args : Len(Args[k]) = 1
    /\ lastOp.op = "Sign" =>
          Args["oauth_signature"] =
              <<getSignature(Without(client, "oauth_signature"), lastOp.secret)>>

C5_Witness ==
    /\ lastOp.op = "Sign"
    /\ lastOp.again
    /\ Cardinality(DOMAIN Args) > 4

\* The keys and values of args, each key followed by its value, in ascending
\* order of key: the least remaining key first.
RECURSIVE AscendingConcat(_, _)
AscendingConcat(args, names) ==
    IF names = {} THEN ""
    ELSE LET least == CHOOSE k \in names : \A j \in names : j = k \/ StrLess(k, j)
         IN  least \o args[least][1] \o AscendingConcat(args, names \ {least})

\* C6: the value ApiSign(s) stores under api_sig is the digest of s followed
\* by the key and the value of every other parameter in ascending order of
\* key, whatever order the parameters are visited in.
C6_ApiSigIsDigestOfSortedPairs ==
    lastOp.op = "ApiSign" =>
        Args["api_sig"] =
            <<Md5Hex(lastOp.secret
                     \o AscendingConcat(Args, DOMAIN Args \ {"api_sig"}))>>

C6_Witness ==
    /\ lastOp.op = "ApiSign"
    /\ lastOp.secret # ""
    /\ Cardinality(DOMAIN Args) > 4

\* C8: right after SetDefaultArgs the parameter set holds exactly
\* oauth_version = 1.0, oauth_signature_method = HMAC-SHA1, oauth_nonce and
\* oauth_timestamp, and the requests of GetRequestToken and GetAccessToken
\* hold only these and the parameters the step itself sets.
C8_DefaultSeedingIsAReset ==
    /\ lastOp.op = "SetDefaultArgs" =>
          /\ DOMAIN Args = DefaultNames
          /\ Args["oauth_version"] = <<"1.0">>
          /\ Args["oauth_signature_method"] = <<"HMAC-SHA1">>
          /\ \E seed \in Seeds :
                /\ Args["oauth_nonce"] = <<seed.n>>
                /\ Args["oauth_timestamp"] = <<FormatInt(seed.now)>>
    /\ lastOp.op = "GetRequestToken" =>
          DOMAIN Args = DefaultNames \cup
              {"oauth_consumer_key", "oauth_callback", "oauth_signature"}
    /\ lastOp.op = "GetAccessToken" =>
          DOMAIN Args = DefaultNames \cup
              {"oauth_verifier", "oauth_consumer_key", "oauth_token", "oauth_signature"}

C8_Witness ==
    /\ lastOp.op = "SetDefaultArgs"
    /\ lastOp.had

----------------------------------------------------------------------------
(* The parsers, on generated response bodies.                              *)

\* The parameters a body is written from: the text on the wire, and the key
\* and value it stands for (valid: whether the text is well escaped).
FieldSamples ==
    {[wire |-> "oauth_problem=permission_denied",
      key |-> "oauth_problem", val |-> "permission_denied", valid |-> TRUE],
     [wire |-> "oauth_problem=",
      key |-> "oauth_problem", val |-> "", valid |-> TRUE],
     [wire |-> "oauth_token=T1",
      key |-> "oauth_token", val |-> "T1", valid |-> TRUE],
     [wire |-> "oauth_token=a%26b+c",
      key |-> "oauth_token", val |-> "a&b c", valid |-> TRUE],
     [wire |-> "oauth_token=%zz",
      key |-> "oauth_token", val |-> "", valid |-> FALSE],
     [wire |-> "oauth_token_secret=S1",
      key |-> "oauth_token_secret", val |-> "S1", valid |-> TRUE],
     [wire |-> "oauth_callback_confirmed=true",
      key |-> "oauth_callback_confirmed", val |-> "true", valid |-> TRUE],
     [wire |-> "oauth_callback_confirmed=yes",
      key |-> "oauth_callback_confirmed", val |-> "yes", valid |-> TRUE],
     [wire |-> "username",
      key |-> "username", val |-> "", valid |-> TRUE]}

\* White space around a body.
Pads == {[pre |-> "", post |-> ""], [pre |-> " ", post |-> "\r\n"]}

FieldSeqs == UNION {[1..n -> FieldSamples] : n \in 0..MaxFields}

RECURSIVE WireOf(_)
WireOf(fs) ==
    IF fs = <<>> THEN ""
    ELSE IF Len(fs) = 1 THEN fs[1].wire
    ELSE fs[1].wire \o "&" \o WireOf(Tail(fs))

BodyOf(fs, pad) == pad.pre \o WireOf(fs) \o pad.post

ParseInit ==
    /\ ClientIdle
    /\ EnvelopeIdle
    /\ NonceIdle
    /\ reqToken = NilRequestToken
    /\ reqErr = "nil"
    /\ accToken = NilOAuthToken
    /\ accErr = "nil"
    /\ fields \in FieldSeqs
    /\ \E pad \in Pads : response = BodyOf(fields, pad)

clientVars == <<client, nesting, request>>

DoParseRequestToken ==
    /\ lastOp.op = "NewFlickrClient"
    /\ LET res == ParseRequestToken(response)
       IN  /\ reqToken' = res.tok
           /\ reqErr' = res.err
    /\ lastOp' = Op("ParseRequestToken")
    /\ UNCHANGED <<clientVars, response, accToken, accErr, pureVars>>

DoParseOAuthToken ==
    /\ lastOp.op = "NewFlickrClient"
    /\ LET res == ParseOAuthToken(response)
       IN  /\ accToken' = res.tok
           /\ accErr' = res.err
    /\ lastOp' = Op("ParseOAuthToken")
    /\ UNCHANGED <<clientVars, response, reqToken, reqErr, pureVars>>

ParseNext ==
    \/ DoParseRequestToken
    \/ DoParseOAuthToken

SpecParse == ParseInit /\ [][ParseNext]_vars

\* What the body says: whether every parameter is well escaped, whether a
\* parameter named key occurs, and the value of the first one that does.
AllValid(fs) == \A i \in 1..Len(fs) : fs[i].valid

HasKey(fs, key) == \E i \in 1..Len(fs) : fs[i].key = key

FirstValue(fs, key) ==
    IF HasKey(fs, key)
    THEN fs[CHOOSE i \in 1..Len(fs) :
                /\ fs[i].key = key
                /\ \A j \in 1..(i - 1) : fs[j].key # key].val
    ELSE ""

\* C3 as stated: for a body that parses and holds an oauth_problem
\* parameter, ParseRequestToken returns error 20 and ParseOAuthToken error
\* 30, with a token whose OAuthProblem is the body's oauth_problem value.
C3_AnyOAuthProblemIsRejected ==
    (AllValid(fields) /\ HasKey(fields, "oauth_problem")) =>
        /\ lastOp.op = "ParseRequestToken" =>
              /\ reqErr = NewError(20)
              /\ ~reqToken.nil
              /\ reqToken.OAuthProblem = FirstValue(fields, "oauth_problem")
        /\ lastOp.op = "ParseOAuthToken" =>
              /\ accErr = NewError(30)
              /\ ~accToken.nil
              /\ accToken.OAuthProblem = FirstValue(fields, "oauth_problem")

\* C3 as amended: for a body that parses and whose first oauth_problem
\* parameter has a value that is not empty, ParseRequestToken returns error
\* 20 and ParseOAuthToken error 30, with a token whose OAuthProblem is that
\* value; an oauth_problem whose first value is empty is not a rejection.
C3_OAuthProblemIsRejected ==
    /\ (AllValid(fields) /\ FirstValue(fields, "oauth_problem") # "") =>
          /\ lastOp.op = "ParseRequestToken" =>
                /\ reqErr = NewError(20)
                /\ ~reqToken.nil
                /\ reqToken.OAuthProblem = FirstValue(fields, "oauth_problem")
          /\ lastOp.op = "ParseOAuthToken" =>
                /\ accErr = NewError(30)
                /\ ~accToken.nil
                /\ accToken.OAuthProblem = FirstValue(fields, "oauth_problem")
    /\ (AllValid(fields) /\ FirstValue(fields, "oauth_problem") = "") =>
          /\ lastOp.op = "ParseRequestToken" => reqErr = "nil"
          /\ lastOp.op = "ParseOAuthToken" => accErr = "nil"

C3_Witness ==
    /\ lastOp.op = "ParseOAuthToken"
    /\ AllValid(fields)
    /\ Len(fields) > 1
    /\ FirstValue(fields, "oauth_problem") = "permission_denied"
    /\ HasKey(fields, "oauth_token")

TrueStrings == {"1", "t", "T", "TRUE", "true", "True"}

\* C7: for a body that parses and holds no oauth_problem, ParseRequestToken
\* returns no error and a token with the body's oauth_token and
\* oauth_token_secret, with OauthCallbackConfirmed true exactly when
\* oauth_callback_confirmed is a true boolean, and with no OAuthProblem.
C7_RequestTokenIsTheBodys ==
    (/\ lastOp.op = "ParseRequestToken"
     /\ AllValid(fields)
     /\ ~HasKey(fields, "oauth_problem")) =>
        /\ reqErr = "nil"
        /\ ~reqToken.nil
        /\ reqToken.OauthToken = FirstValue(fields, "oauth_token")
        /\ reqToken.OauthTokenSecret = FirstValue(fields, "oauth_token_secret")
        /\ reqToken.OauthCallbackConfirmed
              = (FirstValue(fields, "oauth_callback_confirmed") \in TrueStrings)
        /\ reqToken.OAuthProblem = ""

C7_Witness ==
    /\ lastOp.op = "ParseRequestToken"
    /\ response = "oauth_callback_confirmed=true&oauth_token=T1&oauth_token_secret=S1"
    /\ reqToken.OauthCallbackConfirmed

----------------------------------------------------------------------------
(* The response envelope, on generated documents.                          *)

ErrSamples ==
    {[code |-> c, msg |-> m] : c \in {0, 1, 105}, m \in {"", "not found"}}

DocSamples ==
    {[stat |-> st, errs |-> es] :
        st \in {"ok", "fail", "", "FAIL"},
        es \in UNION {[1..n -> ErrSamples] : n \in 0..MaxErrElems}}

EnvelopeInit ==
    /\ ClientIdle
    /\ ParseIdle
    /\ NonceIdle
    /\ rspDoc \in DocSamples
    /\ rsp = ZeroResponse

DoUnmarshal ==
    /\ lastOp.op = "NewFlickrClient"
    /\ rsp' = Unmarshal(rspDoc)
    /\ lastOp' = Op("Unmarshal")
    /\ UNCHANGED <<clientVars, response, heldVars, accToken, accErr,
                   fields, rspDoc, b, nonce>>

SpecEnvelope == EnvelopeInit /\ [][DoUnmarshal]_vars

\* C9: a response that reports no errors has error code 0 and an empty
\* error message.
C9_NoErrorsMeansNoCode ==
    (lastOp.op = "Unmarshal" /\ ~HasErrors(rsp)) =>
        /\ ErrorCode(rsp) = 0
        /\ ErrorMsg(rsp) = ""

----------------------------------------------------------------------------
(* generateNonce, a draw at a time.                                        *)

NonceInit ==
    /\ ClientIdle
    /\ ParseIdle
    /\ EnvelopeIdle
    /\ NonceIdle

\* One turn of the loop: b[i] = letters[rand.Intn(len(letters))].
NonceDraw ==
    /\ lastOp.op = "NewFlickrClient"
    /\ Len(b) < NonceLen
    /\ \E r \in Intn(Len(letters)) : b' = Append(b, NonceRune(r))
    /\ UNCHANGED <<client, lastOp, nesting, request, response, heldVars,
                   accToken, accErr, fields, rspDoc, rsp, nonce>>

\* return string(b)
NonceReturn ==
    /\ lastOp.op = "NewFlickrClient"
    /\ Len(b) = NonceLen
    /\ nonce' = RunesToString(b)
    /\ lastOp' = Op("generateNonce")
    /\ UNCHANGED <<clientVars, response, heldVars, accToken, accErr,
                   fields, rspDoc, rsp, b>>

NonceNext ==
    \/ NonceDraw
    \/ NonceReturn

SpecNonce == NonceInit /\ [][NonceNext]_vars

\* C10 as stated: a nonce is 8 characters long, each from the alphabet, and
\* the alphabet has 57 characters, all alphanumeric, none of them 0, l, O or
\* I, and none that url.QueryEscape changes.
C10_NonceAlphabetOf57 ==
    lastOp.op = "generateNonce" =>
        /\ Len(nonce) = 8
        /\ CharsOf(nonce) \subseteq CharsOf(letters)
        /\ Cardinality(CharsOf(letters)) = 57
        /\ CharsOf(letters) \subseteq Alnum \ {"0", "l", "O", "I"}
        /\ QueryEscape(nonce) = nonce

\* C10 as amended: a nonce is 8 characters long, each from the alphabet, and
\* the alphabet has 58 characters: the 62 alphanumeric characters without 0,
\* l, O and I; url.QueryEscape changes none of them.
C10_NonceAlphabetOf58 ==
    lastOp.op = "generateNonce" =>
        /\ Len(nonce) = 8
        /\ CharsOf(nonce) \subseteq CharsOf(letters)
        /\ Cardinality(CharsOf(letters)) = 58
        /\ CharsOf(letters) = Alnum \ {"0", "l", "O", "I"}
        /\ QueryEscape(nonce) = nonce

C10_Witness ==
    /\ lastOp.op = "generateNonce"
    /\ CharAt(nonce, 1) = "1"
    /\ CharAt(nonce, 8) = "Z"
============================================================================
